---- MODULE Spec2Model ----
(***************************************************************************)
(* A model of src/src/lib.rs: StringInterner<Sym>, its map of              *)
(* InternalStrRef -> Sym and its values: Vec<Box<str>>.                    *)
(*                                                                         *)
(* InternalStrRef is a raw pointer to a str (an address and a length), so  *)
(* the model keeps the memory the pointers refer to: every map key is an   *)
(* address and a length, and its content is whatever the memory holds      *)
(* there when the key is read. Reading bytes that have been deallocated is *)
(* undefined behaviour; it is modelled as reading any bytes.               *)
(***************************************************************************)
EXTENDS Integers, Sequences, FiniteSets, TLC

\* ------------------------------------------------------------------ bounds
MaxHeap == 2          \* heap cells that can hold a str allocation
MaxLen == 2           \* cap on an arena's length when the Symbol type allows more
MaxCallerBufs == 1    \* String buffers the caller keeps and lends as &str
SymBits == 0          \* width of the narrow Symbol type: it has 2^SymBits values
UsizeBits == 2        \* width of usize (scaled down)
HashBits == 1         \* width of the hash values the HashMap compares

\* ----------------------------------------------------------------- strings
\* String contents are byte sequences: "a", "b", "c". With HashBits = 1 the
\* hashes of "a" and "c" collide and that of "b" differs.
StrTable == << <<97>>, <<98>>, <<99>> >>
Strings == {StrTable[k] : k \in 1..Len(StrTable)}

\* ------------------------------------------------------------------ memory
\* The string literals of the caller's binary live at fixed addresses and are
\* never deallocated; every other str lives in a heap cell.
Static == 1..Len(StrTable)
Heap == (Len(StrTable) + 1)..(Len(StrTable) + MaxHeap)
Addr == Static \cup Heap
\* What mem holds at a deallocated (or never allocated) cell.
Freed == <<0>>

Pow2(n) == 2 ^ n
Inst == {1, 2}
NoSym == -1

VARIABLES
    mem,      \* Addr -> Strings \cup {Freed}: the str stored at each address
    caller,   \* the heap cells that are String buffers owned by the caller
    symW,     \* the width in bits of the type parameter Sym
    alive,    \* Inst -> BOOLEAN: the interner exists
    map,      \* Inst -> set of [ref, len, hash, sym]: StringInterner::map
    values,   \* Inst -> Seq(Addr): StringInterner::values, each a Box<str>
    first,    \* Inst -> Seq([text, sym]): per content, the first call's result since clear
    stale,    \* Inst -> Seq(Strings): the values the last noted clear dropped
    last      \* the last operation and what it returned

vars == <<mem, caller, symW, alive, map, values, first, stale, last>>

Range(s) == {s[k] : k \in 1..Len(s)}
FreeCells(m) == {a \in Heap : m[a] = Freed}
\* The allocator is first-fit: a new allocation takes the lowest free cell.
Alloc(m) == {a \in FreeCells(m) : \A b \in FreeCells(m) : a <= b}

\* What reading the str at pointer q = <<address, length>> can yield in
\* memory m: the first `length` bytes stored there; the bytes of a deallocated
\* cell, and those past the end of the stored str, are any bytes.
Reads(m, q) ==
    LET t == m[q[1]]
    IN  IF t # Freed /\ Len(t) >= q[2]
        THEN {SubSeq(t, 1, q[2])}
        ELSE {s \in Strings :
                /\ Len(s) = q[2]
                /\ t # Freed => SubSeq(s, 1, Len(t)) = t}

\* One read of each of the pointers `ptrs` in memory m.
Views(m, ptrs) ==
    {v \in [ptrs -> Strings] : \A q \in ptrs : v[q] \in Reads(m, q)}

\* ---------------------------------------------------------- InternalStrRef
\* impl Hash for InternalStrRef: as_str().hash(state); str::hash writes the
\* bytes and then 0xff. The Hasher is abstracted to a HashBits wide mix.
HashMod == Pow2(HashBits)
RECURSIVE Write(_, _)
Write(h, bytes) ==
    IF bytes = <<>> THEN h
    ELSE Write((h * 31 + Head(bytes)) % HashMod, Tail(bytes))
HashStr(s) == Write(Write(0, s), <<255>>)

\* InternalStrRef::from_str(val): the address and the length of val.
FromStr(ref, text) == <<ref, Len(text)>>
\* The InternalStrRef a map entry holds as its key.
KeyOf(e) == <<e.ref, e.len>>
\* InternalStrRef::as_str: the str the pointer refers to, as read in view v.
AsStr(v, q) == v[q]

\* InternalStrRef::eq with a plausible slip: the pointers are compared.
RefEqByAddress(v, q1, q2) == q1 = q2
\* impl PartialEq for InternalStrRef: self.as_str() == other.as_str().
RefEq(v, q1, q2) == AsStr(v, q1) = AsStr(v, q2)
\* impl Hash for InternalStrRef: self.as_str().hash(state).
RefHash(v, q) == HashStr(AsStr(v, q))

\* ------------------------------------------------------------------ Symbol
\* Sym::from_usize(n): None (NoSym) when n does not fit in Sym.
FromUsize(n) == IF n < Pow2(symW) THEN n ELSE NoSym
\* Sym::to_usize(s): None (NoSym) when s does not fit in usize.
ToUsize(s) == IF s < Pow2(UsizeBits) THEN s ELSE NoSym
\* The instantiations of Sym considered: one narrower than usize, one wider.
SymWidths == {SymBits, UsizeBits + 1}
SymValues == 0..(Pow2(symW) - 1)

\* ----------------------------------------------------------------- HashMap
\* A search with a plausible slip: only the stored hashes are compared.
ProbeHashOnly(mp, v, h, c) == {e \in mp : e.hash = h}

\* The entries of mp a search for a key with hash h and content c stops at:
\* the stored hash is compared first, then the keys with InternalStrRef::eq.
Probe(mp, v, h, c) == {e \in mp : e.hash = h /\ AsStr(v, KeyOf(e)) = c}
Keys(mp) == {KeyOf(e) : e \in mp}

\* HashMap::insert(key, sym), the key read in view w: an entry with an equal
\* key has its value replaced, else a new entry is added.
Inserted(mp, w, key, sym) ==
    LET same == Probe(mp, w, HashStr(AsStr(w, key)), AsStr(w, key))
    IN  IF same # {}
        THEN {(mp \ {e}) \cup {[e EXCEPT !.sym = sym]} : e \in same}
        ELSE {mp \cup {[ref |-> key[1], len |-> key[2],
                        hash |-> HashStr(AsStr(w, key)), sym |-> sym]}}

\* ------------------------------------------------------------ return values
RetItems(op, i, text, tag, sym, items) ==
    [op |-> op, inst |-> i, text |-> text, tag |-> tag, sym |-> sym,
     items |-> items]
Ret(op, i, text, tag, sym) == RetItems(op, i, text, tag, sym, <<>>)

\* The history kept for the claims: per content, the first result since clear.
Noted(i, text, sym) ==
    first' = IF \E k \in 1..Len(first[i]) : first[i][k].text = text
             THEN first
             ELSE [first EXCEPT ![i] = Append(@, [text |-> text, sym |-> sym])]

\* -------------------------------------------------------------------- Init
\* StringInterner::default(): an empty map and an empty values.
Init ==
    /\ mem = [a \in Addr |-> IF a \in Static THEN StrTable[a] ELSE Freed]
    /\ caller = {}
    /\ symW \in SymWidths
    /\ alive = [i \in Inst |-> i = 1]
    /\ map = [i \in Inst |-> {}]
    /\ values = [i \in Inst |-> <<>>]
    /\ first = [i \in Inst |-> <<>>]
    /\ stale = [i \in Inst |-> <<>>]
    /\ last = Ret("new", 1, <<>>, "none", NoSym)

\* ------------------------------------------------------------------ caller
\* The caller creates a String holding c.
CallerAlloc(c) ==
    /\ Cardinality(caller) < MaxCallerBufs
    /\ \E p \in Alloc(mem) :
         /\ mem' = [mem EXCEPT ![p] = c]
         /\ caller' = caller \cup {p}
    /\ last' = Ret("caller", 0, <<>>, "none", NoSym)
    /\ UNCHANGED <<symW, stale, alive, map, values, first>>

\* The caller changes its String in place (clear + push_str within capacity).
CallerWrite(p, c) ==
    /\ p \in caller
    /\ mem[p] # c
    /\ mem' = [mem EXCEPT ![p] = c]
    /\ last' = Ret("caller", 0, <<>>, "none", NoSym)
    /\ UNCHANGED <<caller, symW, stale, alive, map, values, first>>

\* The caller drops its String.
CallerFree(p) ==
    /\ p \in caller
    /\ mem' = [mem EXCEPT ![p] = Freed]
    /\ caller' = caller \ {p}
    /\ last' = Ret("caller", 0, <<>>, "none", NoSym)
    /\ UNCHANGED <<symW, stale, alive, map, values, first>>

\* ----------------------------------------------------------- get_or_intern
\* Where the Box<str> pushed by gensym lives. A &str argument is copied into
\* a new allocation (Into<String>); a String argument is moved and
\* into_boxed_str() shrinks it, which keeps its buffer or reallocates it.
BoxPlaces(kind, ref, m0) ==
    IF kind = "owned" THEN {ref} \cup Alloc(m0) ELSE Alloc(m0)

\* The memory after values.push(new_val.into().into_boxed_str()).
Pushed(kind, ref, text, box, m0) ==
    IF kind = "owned" /\ box # ref
    THEN [m0 EXCEPT ![box] = text, ![ref] = Freed]
    ELSE [m0 EXCEPT ![box] = text]

\* StringInterner::make_symbol: Sym::from_usize(self.len()), unwrapped by the
\* caller of this operator.
MakeSymbol(i) == FromUsize(Len(values[i]))

\* gensym with a plausible slip: the value is pushed before make_symbol()
\* is unwrapped, so an overflow panics with the arena already grown.
GensymPushFirst(i, kind, ref, text, m0) ==
    LET new_id == MakeSymbol(i)
    IN  /\ Len(values[i]) < MaxLen
        /\ \E box \in BoxPlaces(kind, ref, m0) :
             LET m1 == Pushed(kind, ref, text, box, m0)
             IN  /\ mem' = m1
                 /\ values' = [values EXCEPT ![i] = Append(@, box)]
                 /\ IF new_id = NoSym
                    THEN /\ map' = map
                         /\ first' = first
                         /\ last' = Ret("get_or_intern", i, text, "panic", NoSym)
                    ELSE /\ \E w \in Views(m1, Keys(map[i]) \cup {FromStr(ref, text)}) :
                              \E mp \in Inserted(map[i], w, FromStr(ref, text), new_id) :
                                map' = [map EXCEPT ![i] = mp]
                         /\ last' = Ret("get_or_intern", i, text, "miss", new_id)
                         /\ Noted(i, text, new_id)
        /\ UNCHANGED <<caller, symW, stale, alive>>

\* StringInterner::gensym(new_val): new_ref is taken from new_val before
\* new_val is converted and pushed.
Gensym(i, kind, ref, text, m0) ==
    LET new_id == MakeSymbol(i)
        new_ref == FromStr(ref, text)
    IN  IF new_id = NoSym
        THEN \* unwrap() of None panics before anything is pushed or inserted
             /\ last' = Ret("get_or_intern", i, text, "panic", NoSym)
             /\ UNCHANGED <<mem, caller, symW, stale, alive, map, values, first>>
        ELSE /\ Len(values[i]) < MaxLen
             /\ \E box \in BoxPlaces(kind, ref, m0) :
                  LET m1 == Pushed(kind, ref, text, box, m0)
                  IN  /\ mem' = m1
                      /\ values' = [values EXCEPT ![i] = Append(@, box)]
                      /\ \E w \in Views(m1, Keys(map[i]) \cup {new_ref}) :
                           \E mp \in Inserted(map[i], w, new_ref, new_id) :
                             map' = [map EXCEPT ![i] = mp]
             /\ last' = Ret("get_or_intern", i, text, "miss", new_id)
             /\ Noted(i, text, new_id)
             /\ UNCHANGED <<caller, symW, stale, alive>>

\* StringInterner::get_or_intern(val). kind says what val is: "literal" (a
\* &'static str at ref), "borrowed" (a &str into the caller's String at ref)
\* or "owned" (a String whose buffer the caller allocated at ref).
GetOrIntern(i, kind, ref, text) ==
    /\ alive[i]
    /\ LET m0 == [mem EXCEPT ![ref] = text]
       IN  \E v \in Views(m0, Keys(map[i])) :
             LET found == Probe(map[i], v, HashStr(text), text)
             IN  IF found # {}
                 THEN \E e \in found :
                        /\ last' = Ret("get_or_intern", i, text, "hit", e.sym)
                        /\ Noted(i, text, e.sym)
                        \* a String argument is dropped on return
                        /\ UNCHANGED <<mem, caller, symW, stale, alive, map, values>>
                 ELSE Gensym(i, kind, ref, text, m0)

InternLiteral(i) ==
    \E a \in Static : GetOrIntern(i, "literal", a, mem[a])

InternBorrowed(i) ==
    \E p \in caller : GetOrIntern(i, "borrowed", p, mem[p])

InternOwned(i) ==
    \E p \in Alloc(mem) : \E c \in Strings : GetOrIntern(i, "owned", p, c)

\* ------------------------------------------------------------------- clear
\* clear with a plausible slip: the map is cleared and the values are kept.
ClearMapOnly(i) ==
    /\ alive[i]
    /\ map' = [map EXCEPT ![i] = {}]
    /\ first' = [first EXCEPT ![i] = <<>>]
    /\ last' = Ret("clear", i, <<>>, "none", Len(values[i]))
    /\ UNCHANGED <<mem, caller, symW, alive, values>>

\* clear with a plausible slip: only the values are cleared.
ClearValuesOnly(i) ==
    /\ alive[i]
    /\ values' = [values EXCEPT ![i] = <<>>]
    /\ mem' = [a \in Addr |-> IF a \in Range(values[i]) THEN Freed ELSE mem[a]]
    /\ first' = [first EXCEPT ![i] = <<>>]
    /\ last' = Ret("clear", i, <<>>, "none", Len(values[i]))
    /\ UNCHANGED <<caller, symW, stale, alive, map>>

\* clear with a plausible slip: values.clear() comes before map.clear(), so
\* the map is still full while the Boxes are dropped.
ClearStepsValuesFirst(i) ==
    [k \in 1..(Len(values[i]) + 1) |->
        [map |-> IF k <= Len(values[i]) THEN map[i] ELSE {},
         dropped |-> {values[i][j] : j \in {n \in 1..k : n <= Len(values[i])}}]]

\* The points clear() passes through: after map.clear(), and then after
\* each Box that values.clear() drops, front to back. A point is the map
\* and the Boxes dropped so far.
ClearSteps(i) ==
    [k \in 1..(Len(values[i]) + 1) |->
        [map |-> {}, dropped |-> {values[i][j] : j \in 1..(k - 1)}]]

\* StringInterner::clear: map.clear(), then values.clear() drops every Box.
ClearCore(i) ==
    /\ alive[i]
    /\ LET end == ClearSteps(i)[Len(values[i]) + 1]
       IN  /\ map' = [map EXCEPT ![i] = end.map]
           /\ mem' = [a \in Addr |-> IF a \in end.dropped THEN Freed ELSE mem[a]]
    /\ values' = [values EXCEPT ![i] = <<>>]
    /\ first' = [first EXCEPT ![i] = <<>>]
    /\ last' = Ret("clear", i, <<>>, "none", Len(values[i]))
    /\ UNCHANGED <<caller, symW, alive>>

Clear(i) == ClearCore(i) /\ UNCHANGED stale

\* clear, with the history of what it dropped kept for the claims on the
\* Symbols issued before a clear.
ClearNoted(i) ==
    /\ ClearCore(i)
    /\ stale' = [stale EXCEPT ![i] = [k \in 1..Len(values[i]) |-> mem[values[i][k]]]]

\* --------------------------------------------------------------------- get
\* StringInterner::get(symbol): values.get(symbol.to_usize().unwrap()).
Resolve(i, s) ==
    LET idx == ToUsize(s)
    IN  IF idx = NoSym THEN [tag |-> "panic", text |-> <<>>]
        ELSE IF idx < Len(values[i])
             THEN [tag |-> "some", text |-> mem[values[i][idx + 1]]]
             ELSE [tag |-> "none", text |-> <<>>]

Get(i, s) ==
    /\ alive[i]
    /\ last' = Ret("get", i, Resolve(i, s).text, Resolve(i, s).tag, s)
    /\ UNCHANGED <<mem, caller, symW, stale, alive, map, values, first>>

\* ----------------------------------------------------------- lookup_symbol
\* StringInterner::lookup_symbol(val): map.get(&val.as_ref().into()). What
\* it can return for content c: a symbol, or NoSym for None.
LookupOutcomes(i, c) ==
    UNION {LET found == Probe(map[i], v, HashStr(c), c)
           IN  IF found = {} THEN {NoSym} ELSE {e.sym : e \in found}
           : v \in Views(mem, Keys(map[i]))}

\* lookup_symbol with a plausible slip: a string that is not found is
\* interned, as get_or_intern does.
LookupSymbolInterning(i, c) ==
    /\ alive[i]
    /\ \E r \in LookupOutcomes(i, c) :
         IF r = NoSym /\ MakeSymbol(i) # NoSym /\ Len(values[i]) < MaxLen
                      /\ Alloc(mem) # {}
         THEN \E box \in Alloc(mem) :
                /\ mem' = [mem EXCEPT ![box] = c]
                /\ values' = [values EXCEPT ![i] = Append(@, box)]
                /\ map' = [map EXCEPT ![i] = @ \cup
                             {[ref |-> box, len |-> Len(c), hash |-> HashStr(c),
                               sym |-> MakeSymbol(i)]}]
                /\ last' = Ret("lookup_symbol", i, c, "none", NoSym)
                /\ UNCHANGED <<caller, symW, stale, alive, first>>
         ELSE /\ last' = Ret("lookup_symbol", i, c,
                             IF r = NoSym THEN "none" ELSE "some", r)
              /\ UNCHANGED <<mem, caller, symW, stale, alive, map, values, first>>

LookupSymbol(i, c) ==
    /\ alive[i]
    /\ \E r \in LookupOutcomes(i, c) :
         last' = Ret("lookup_symbol", i, c, IF r = NoSym THEN "none" ELSE "some", r)
    /\ UNCHANGED <<mem, caller, symW, stale, alive, map, values, first>>

\* --------------------------------------------------------------------- len
LenOf(i) == Len(values[i])

LenOp(i) ==
    /\ alive[i]
    /\ last' = Ret("len", i, <<>>, "none", LenOf(i))
    /\ UNCHANGED <<mem, caller, symW, stale, alive, map, values, first>>

\* --------------------------------------------------------------- iteration
\* StringInterner::iter_values: the Box<str> of values, in order.
IterValuesOf(i) == [k \in 1..Len(values[i]) |-> mem[values[i][k]]]

\* iter with a plausible slip: the values are numbered from 1.
IterOfFromOne(i) ==
    [k \in 1..Len(values[i]) |-> <<FromUsize(k), mem[values[i][k]]>>]

\* StringInterner::iter: enumerate() numbers the values from 0 and
\* Sym::from_usize(num).unwrap() makes each number a symbol.
IterOf(i) ==
    [k \in 1..Len(values[i]) |-> <<FromUsize(k - 1), mem[values[i][k]]>>]

IterValues(i) ==
    /\ alive[i]
    /\ last' = RetItems("iter_values", i, <<>>, "none", NoSym, IterValuesOf(i))
    /\ UNCHANGED <<mem, caller, symW, stale, alive, map, values, first>>

Iter(i) ==
    /\ alive[i]
    /\ last' = RetItems("iter", i, <<>>,
                        IF \E k \in 1..Len(values[i]) : IterOf(i)[k][1] = NoSym
                        THEN "panic" ELSE "none",
                        NoSym, IterOf(i))
    /\ UNCHANGED <<mem, caller, symW, stale, alive, map, values, first>>

\* ------------------------------------------------- new, clone, drop and ==
\* StringInterner::default() / with_capacity(cap).
New(j) ==
    /\ ~alive[j]
    /\ alive' = [alive EXCEPT ![j] = TRUE]
    /\ last' = Ret("new", j, <<>>, "none", NoSym)
    /\ UNCHANGED <<mem, caller, symW, stale, map, values, first>>

\* The cells n successive allocations take in memory m.
RECURSIVE AllocSeq(_, _)
AllocSeq(m, n) ==
    IF n = 0 THEN <<>>
    ELSE LET a == CHOOSE x \in Alloc(m) : TRUE
         IN  <<a>> \o AllocSeq([m EXCEPT ![a] = <<>>], n - 1)

\* #[derive(Clone)]: values is cloned Box by Box into new allocations; map is
\* cloned entry by entry, and InternalStrRef is Copy, so its keys are the
\* same pointers.
Clone(i, j) ==
    /\ alive[i] /\ ~alive[j]
    /\ Cardinality(FreeCells(mem)) >= Len(values[i])
    /\ LET boxes == AllocSeq(mem, Len(values[i]))
       IN  /\ values' = [values EXCEPT ![j] = boxes]
           /\ mem' = [a \in Addr |->
                        IF \E k \in 1..Len(boxes) : boxes[k] = a
                        THEN mem[values[i][CHOOSE k \in 1..Len(boxes) : boxes[k] = a]]
                        ELSE mem[a]]
    /\ map' = [map EXCEPT ![j] = map[i]]
    /\ alive' = [alive EXCEPT ![j] = TRUE]
    /\ first' = [first EXCEPT ![j] = first[i]]
    /\ last' = Ret("clone", j, <<>>, "none", i)
    /\ UNCHANGED <<caller, symW, stale>>

\* Dropping an interner drops its map (pointers: nothing is freed) and its
\* values (every Box is freed).
Drop(i) ==
    /\ alive[i]
    /\ alive' = [alive EXCEPT ![i] = FALSE]
    /\ map' = [map EXCEPT ![i] = {}]
    /\ values' = [values EXCEPT ![i] = <<>>]
    /\ mem' = [a \in Addr |-> IF a \in Range(values[i]) THEN Freed ELSE mem[a]]
    /\ first' = [first EXCEPT ![i] = <<>>]
    /\ last' = Ret("drop", i, <<>>, "none", NoSym)
    /\ UNCHANGED <<caller, symW, stale>>

\* HashMap's PartialEq, the keys read in view v: equal lengths, and every
\* (key, value) of mp1 has other.get(key) == Some(value). The set holds each
\* answer the search order allows.
MapEqOutcomes(mp1, mp2, v) ==
    IF Cardinality(mp1) # Cardinality(mp2) THEN {FALSE}
    ELSE {b \in BOOLEAN :
            IF b
            THEN \A e \in mp1 :
                   \E f \in Probe(mp2, v, HashStr(AsStr(v, KeyOf(e))), AsStr(v, KeyOf(e))) :
                     f.sym = e.sym
            ELSE \E e \in mp1 :
                   LET found == Probe(mp2, v, HashStr(AsStr(v, KeyOf(e))), AsStr(v, KeyOf(e)))
                   IN  found = {} \/ \E f \in found : f.sym # e.sym}

\* Vec<Box<str>>'s PartialEq: equal lengths and equal strs, element by element.
ValuesEq(i, j) ==
    /\ Len(values[i]) = Len(values[j])
    /\ \A k \in 1..Len(values[i]) : mem[values[i][k]] = mem[values[j][k]]

\* #[derive(PartialEq)]: self.map == other.map && self.values == other.values.
EqOutcomes(i, j) ==
    UNION {{b /\ ValuesEq(i, j) : b \in MapEqOutcomes(map[i], map[j], v)}
           : v \in Views(mem, Keys(map[i]) \cup Keys(map[j]))}

Eq(i, j) ==
    /\ alive[i] /\ alive[j]
    /\ \E b \in EqOutcomes(i, j) :
         last' = Ret("eq", i, <<>>, IF b THEN "true" ELSE "false", j)
    /\ UNCHANGED <<mem, caller, symW, stale, alive, map, values, first>>

\* ----------------------------------------------------------- specifications
\* One interner, its caller's memory and every operation on it.
Next ==
    \/ \E c \in Strings : CallerAlloc(c)
    \/ \E p \in Heap : \E c \in Strings : CallerWrite(p, c)
    \/ \E p \in Heap : CallerFree(p)
    \/ \E i \in Inst : InternLiteral(i)
    \/ \E i \in Inst : InternBorrowed(i)
    \/ \E i \in Inst : InternOwned(i)
    \/ \E i \in Inst : Clear(i)
    \/ \E i \in Inst : \E s \in SymValues : Get(i, s)
    \/ \E i \in Inst : \E c \in Strings : LookupSymbol(i, c)
    \/ \E i \in Inst : LenOp(i)
    \/ \E i \in Inst : IterValues(i)
    \/ \E i \in Inst : Iter(i)

Spec == Init /\ [][Next]_vars

\* Two interners: created, cloned, compared and dropped.
NextPair ==
    \/ \E j \in Inst : New(j)
    \/ \E i, j \in Inst : Clone(i, j)
    \/ \E i \in Inst : Drop(i)
    \/ \E i, j \in Inst : Eq(i, j)
    \/ \E i \in Inst : InternLiteral(i)
    \/ \E i \in Inst : InternOwned(i)
    \/ \E i \in Inst : Clear(i)

SpecPair == Init /\ [][NextPair]_vars

\* One interner that is filled from literals and Strings, cleared and filled
\* again, the values each clear dropped being noted.
NextClear ==
    \/ \E i \in Inst : InternLiteral(i)
    \/ \E i \in Inst : InternOwned(i)
    \/ \E i \in Inst : ClearNoted(i)

SpecClear == Init /\ [][NextClear]_vars

\* ------------------------------------------------------------------ claims
FirstTexts(i) == {first[i][k].text : k \in 1..Len(first[i])}
Interned(op) == op.op = "get_or_intern" /\ op.tag \in {"hit", "miss"}

\* C1: every get_or_intern call returns the Symbol that the first call with
\* equal content returned since the last clear, whatever the kind of argument.
C1_DedupDeterministic ==
    Interned(last) =>
        \A k \in 1..Len(first[last.inst]) :
            first[last.inst][k].text = last.text
                => first[last.inst][k].sym = last.sym

\* C2: every Symbol returned by get_or_intern(text) resolves to Some(text),
\* right after the call and, for the first result per content, in every later
\* state before a clear.
C2_RoundTrip ==
    /\ Interned(last) =>
         Resolve(last.inst, last.sym) = [tag |-> "some", text |-> last.text]
    /\ \A i \in Inst : \A k \in 1..Len(first[i]) :
         Resolve(i, first[i][k].sym) = [tag |-> "some", text |-> first[i][k].text]

\* C3: with k distinct contents interned since the last clear, len() = k, the
\* Symbols that resolve are exactly 0..k-1, and they number the contents in
\* the order of their first interning.
C3_Density ==
    \A i \in Inst : alive[i] =>
        /\ LenOf(i) = Len(first[i])
        /\ {s \in SymValues : Resolve(i, s).tag = "some"} = 0..(Len(first[i]) - 1)
        /\ \A k \in 1..Len(first[i]) :
             /\ first[i][k].sym = k - 1
             /\ Resolve(i, k - 1) = [tag |-> "some", text |-> first[i][k].text]

\* C4: lookup_symbol(text) returns Some(s), s the Symbol first returned for
\* text, exactly when text was interned since the last clear, else None.
C4_ReverseConsistency ==
    \A i \in Inst : alive[i] =>
        \A c \in Strings :
            LookupOutcomes(i, c) =
                IF c \in FirstTexts(i)
                THEN {first[i][k].sym : k \in {n \in 1..Len(first[i]) : first[i][n].text = c}}
                ELSE {NoSym}

\* C5: get(symbol) with a symbol whose count is >= len() returns None, and
\* get never panics.
C5_OutOfRangeResolve ==
    last.op = "get" =>
        /\ last.tag # "panic"
        /\ last.sym >= LenOf(last.inst) => last.tag = "none"

\* C6: right after clear() the arena and the index are empty, len() = 0,
\* every Symbol valid before resolves to None and every reverse lookup is None.
C6_ClearInvalidation ==
    last.op = "clear" =>
        /\ LenOf(last.inst) = 0
        /\ values[last.inst] = <<>>
        /\ map[last.inst] = {}
        /\ \A s \in SymValues : Resolve(last.inst, s).tag # "some"
        /\ \A s \in SymValues : s < last.sym => Resolve(last.inst, s).tag = "none"
        /\ \A c \in Strings : LookupOutcomes(last.inst, c) = {NoSym}
C6_Witness == last.op = "clear" /\ last.sym = MaxLen

\* What a caller can observe of interner i: get of every symbol, lookup_symbol
\* of every string, and len.
Observed(i) ==
    [get |-> [s \in SymValues |-> Resolve(i, s)],
     lookup |-> [c \in Strings |-> LookupOutcomes(i, c)],
     len |-> LenOf(i)]

\* Every key of interner i points at memory that is allocated.
LiveKeys(i) == \A e \in map[i] : mem[e.ref] # Freed

\* C7: a clone resolves every Symbol and looks up every string as the
\* original does at clone time, and afterwards no get_or_intern, clear or drop
\* of one interner changes what the other returns (stated for the steps that
\* start with all keys of the other interner pointing at allocated memory).
C7AtClone ==
    last.op = "clone" =>
        /\ \A s \in SymValues : Resolve(last.inst, s) = Resolve(last.sym, s)
        /\ \A c \in Strings :
             LookupOutcomes(last.inst, c) = LookupOutcomes(last.sym, c)
C7Step ==
    last'.op \in {"get_or_intern", "clear", "drop"} =>
        \A i \in Inst :
            (alive[i] /\ i # last'.inst /\ LiveKeys(i)) => Observed(i)' = Observed(i)
C7_CloneIndependent == [](C7AtClone) /\ [][C7Step]_vars

\* C8: a == b is true exactly when the two interners hold equal strings in
\* the same order; the map does not influence the result.
C8_Equality ==
    last.op = "eq" =>
        (last.tag = "true" <=> IterValuesOf(last.inst) = IterValuesOf(last.sym))

\* C9: iter() yields len() pairs, the k-th being Symbol k-1 with the content
\* get() returns for it, in ascending order; iter_values() yields the same
\* contents in the same order; neither panics.
C9_IterationOrder ==
    /\ \A i \in Inst : alive[i] =>
         /\ Len(IterOf(i)) = LenOf(i)
         /\ Len(IterValuesOf(i)) = LenOf(i)
         /\ \A k \in 1..LenOf(i) :
              /\ IterOf(i)[k][1] = k - 1
              /\ Resolve(i, k - 1) = [tag |-> "some", text |-> IterOf(i)[k][2]]
              /\ IterValuesOf(i)[k] = IterOf(i)[k][2]
    /\ last.op = "iter" => last.tag # "panic" /\ last.items = IterOf(last.inst)
    /\ last.op = "iter_values" => last.items = IterValuesOf(last.inst)
C9_Witness == last.op = "iter" /\ Len(last.items) = MaxLen

\* C10: a get_or_intern of new content when len() does not fit in Sym panics
\* and changes neither the arena nor the index; it panics in no other case,
\* and every miss returns len() as it was, pushes one value and records the
\* new Symbol in the index.
C10Step ==
    last'.op = "get_or_intern" =>
        LET i == last'.inst
        IN  /\ last'.tag = "panic" =>
                 /\ LenOf(i) >= Pow2(symW)
                 /\ values' = values /\ map' = map /\ mem' = mem
            /\ last'.tag = "miss" =>
                 /\ LenOf(i) < Pow2(symW)
                 /\ last'.sym = LenOf(i)
                 /\ Len(values'[i]) = LenOf(i) + 1
                 /\ \A k \in 1..LenOf(i) : values'[i][k] = values[i][k]
                 /\ \E e \in map'[i] : e.sym = last'.sym
C10_OverflowAtomic == [][C10Step]_vars
C10_Witness == last.op = "get_or_intern" /\ last.tag = "panic"

\* The contents the key of entry e can be read as in memory m.
KeyTexts(m, e) == Reads(m, KeyOf(e))

\* C11: in every state the index has as many entries as the arena has
\* values, every arena position k holds content that exactly one index entry
\* has as its key content, with Symbol k as its value, and no two arena
\* positions hold equal content.
C11_Bijection ==
    \A i \in Inst : alive[i] =>
        /\ Cardinality(map[i]) = Len(values[i])
        /\ \A k \in 1..Len(values[i]) :
             /\ Cardinality({e \in map[i] : mem[values[i][k]] \in KeyTexts(mem, e)}) = 1
             /\ \A e \in map[i] :
                  mem[values[i][k]] \in KeyTexts(mem, e)
                      => KeyTexts(mem, e) = {mem[values[i][k]]} /\ e.sym = k - 1
        /\ \A k, n \in 1..Len(values[i]) :
             mem[values[i][k]] = mem[values[i][n]] => k = n

\* Every key of interner i's index points at a Box held by i's own arena.
OwnKeys(i) == \A e \in map[i] : e.ref \in Range(values[i])

\* C12: in every state every index key of an interner refers to a Box that
\* the same interner's arena holds, never to the argument's memory nor to a
\* buffer that was moved or freed, for &str and for String arguments.
C12_KeysInOwnArena ==
    \A i \in Inst : alive[i] => OwnKeys(i) /\ LiveKeys(i)

\* No key of interner i's index points at a Box held by interner j's arena.
NoKeyInto(i, j) == \A e \in map[i] : e.ref \notin Range(values[j])

\* C13: right after a clone of an interner whose keys all point into its own
\* arena, every key of the clone's index points at a Box of the clone's
\* arena, and no key of either interner points at a Box of the other.
C13_CloneOwnKeys ==
    (last.op = "clone" /\ OwnKeys(last.sym)) =>
        /\ OwnKeys(last.inst)
        /\ NoKeyInto(last.inst, last.sym)
        /\ NoKeyInto(last.sym, last.inst)

\* C14: a get_or_intern that finds its content in the index returns the
\* Symbol of an entry the index held, and leaves the arena (its length and
\* every element), the memory, the index and len() unchanged; and a call
\* whose content is the content of a key of the index is such a hit.
C14Hit ==
    (last'.op = "get_or_intern" /\ last'.tag = "hit") =>
        /\ \E e \in map[last'.inst] :
             /\ e.sym = last'.sym
             /\ e.hash = HashStr(last'.text)
             /\ last'.text \in KeyTexts(mem, e)
        /\ values' = values
        /\ map' = map
        /\ mem' = mem
        /\ Len(values'[last'.inst]) = LenOf(last'.inst)
C14Step ==
    /\ C14Hit
    /\ (last'.op = "get_or_intern" /\ last'.tag # "hit") =>
          ~\E e \in map[last'.inst] :
              e.hash = HashStr(last'.text) /\ KeyTexts(mem, e) = {last'.text}
C14_HitFrame == [][C14Step]_vars
C14_Witness ==
    /\ last.op = "get_or_intern" /\ last.tag = "hit"
    /\ Len(values[last.inst]) = 1

\* C15: a get_or_intern that misses returns len() as it was, makes len()
\* one more, appends the new content as the last arena element, adds exactly
\* one index entry (the new content -> the new Symbol), and changes no arena
\* element and no index entry that existed before.
C15Step ==
    (last'.op = "get_or_intern" /\ last'.tag = "miss") =>
        LET i == last'.inst
        IN  /\ last'.sym = LenOf(i)
            /\ Len(values'[i]) = LenOf(i) + 1
            /\ mem'[values'[i][LenOf(i) + 1]] = last'.text
            /\ \A k \in 1..LenOf(i) :
                 /\ values'[i][k] = values[i][k]
                 /\ mem'[values[i][k]] = mem[values[i][k]]
            /\ map[i] \subseteq map'[i]
            /\ Cardinality(map'[i] \ map[i]) = 1
            /\ \A e \in map'[i] \ map[i] :
                 /\ e.sym = last'.sym
                 /\ KeyTexts(mem', e) = {last'.text}
C15_MissAppendsOne == [][C15Step]_vars

ReadOps == {"get", "lookup_symbol", "len", "iter", "iter_values"}

\* C16: get, lookup_symbol, len, iter and iter_values change neither the
\* arena nor the index nor the memory, whatever their argument (a Symbol out
\* of range, a string that was never interned) and whatever they return; a
\* lookup_symbol of an unknown string adds no value and no index entry.
C16Step ==
    last'.op \in ReadOps =>
        /\ values' = values
        /\ map' = map
        /\ mem' = mem
        /\ \A i \in Inst : LenOf(i)' = LenOf(i)
C16_ReadsArePure == [][C16Step]_vars
C16_Witness ==
    /\ last.op = "lookup_symbol" /\ last.tag = "none"
    /\ Len(values[last.inst]) = 1
    /\ LookupOutcomes(last.inst, last.text) = {NoSym}

\* The Symbols issued to interner i before its last clear.
StaleSyms(i) == 0..(Len(stale[i]) - 1)

\* C17: the first get_or_intern after a clear misses and returns Symbol 0,
\* whatever its content; every miss returns len() and every hit a Symbol
\* below len(), so the numbering is dense from 0; and a Symbol issued before
\* the clear resolves to None until a miss returns it again, and from then on
\* to the content of that miss.
C17Step ==
    \A i \in Inst :
        /\ (last'.op = "get_or_intern" /\ last'.inst = i
              /\ ((last.op = "clear" /\ last.inst = i) \/ LenOf(i) = 0)) =>
             last'.tag = "miss" /\ last'.sym = 0
        /\ (last'.op = "get_or_intern" /\ last'.inst = i /\ last'.tag = "miss") =>
             /\ last'.sym = LenOf(i)
             /\ LenOf(i)' = LenOf(i) + 1
             /\ \A n \in SymValues :
                  n = LenOf(i) => Resolve(i, n)' = [tag |-> "some", text |-> last'.text]
             /\ \A s \in StaleSyms(i) \ {LenOf(i)} : Resolve(i, s)' = Resolve(i, s)
        /\ (last'.op = "get_or_intern" /\ last'.inst = i /\ last'.tag = "hit") =>
             /\ last'.sym < LenOf(i)
             /\ \A s \in StaleSyms(i) : Resolve(i, s)' = Resolve(i, s)
        /\ (last'.op = "clear" /\ last'.inst = i) =>
             /\ LenOf(i)' = 0
             /\ \A s \in StaleSyms(i)' : Resolve(i, s)'.tag = "none"
        /\ \A s \in StaleSyms(i)' :
             Resolve(i, s)'.tag = IF s < LenOf(i)' THEN "some" ELSE "none"
C17_RestartAfterClear == [][C17Step]_vars
C17_Witness ==
    /\ last.op = "get_or_intern" /\ last.tag = "miss" /\ last.sym = 0
    /\ Len(stale[last.inst]) = MaxLen
    /\ last.text = stale[last.inst][MaxLen]
    /\ Resolve(last.inst, 0).text # stale[last.inst][1]

\* C18: in every clear() the index is empty before the first Box is
\* released, at no point of the clear does the index hold a key that refers
\* to a Box already dropped, and the clear ends with the index empty and
\* every Box of the arena released.
C18Step ==
    last'.op = "clear" =>
        LET i == last'.inst
            st == ClearSteps(i)
        IN  /\ st[1].map = {} /\ st[1].dropped = {}
            /\ \A k \in 1..Len(st) : \A e \in st[k].map : e.ref \notin st[k].dropped
            /\ \A k \in 1..(Len(st) - 1) :
                 /\ st[k].dropped \subseteq st[k + 1].dropped
                 /\ st[k + 1].map \subseteq st[k].map
            /\ map'[i] = st[Len(st)].map
            /\ st[Len(st)].dropped = Range(values[i])
            /\ \A a \in Range(values[i]) : mem'[a] = Freed
C18_ClearOrder == [][C18Step]_vars
C18_Witness == last.op = "clear" /\ last.sym = 1 /\ FreeCells(mem) = Heap

\* The pointers to the strs that memory holds, and one read of each pointer
\* of a set.
LivePtrs == {<<a, Len(mem[a])>> : a \in {b \in Addr : mem[b] # Freed}}
ReadOf(ptrs) == [q \in ptrs |-> CHOOSE s \in Reads(mem, q) : TRUE]

\* C19: two InternalStrRef to strs at different addresses are equal and have
\* the same hash exactly when the strs have the same characters, the hash
\* being that of the plain str; so a search of the index with a pointer to
\* the argument finds the entry whose key, elsewhere in memory, has the same
\* characters as when it was recorded.
C19_ContentKeys ==
    /\ LET v == ReadOf(LivePtrs)
       IN  \A q1, q2 \in LivePtrs :
             /\ RefHash(v, q1) = HashStr(mem[q1[1]])
             /\ RefEq(v, q1, q2) <=> mem[q1[1]] = mem[q2[1]]
             /\ (RefEq(v, q1, q2) /\ RefHash(v, q1) = RefHash(v, q2))
                    <=> mem[q1[1]] = mem[q2[1]]
    /\ \A i \in Inst :
         LET v == ReadOf(Keys(map[i]) \cup LivePtrs)
         IN  \A q \in LivePtrs :
               LET found == Probe(map[i], v, RefHash(v, q), AsStr(v, q))
               IN  /\ found = {f \in map[i] :
                                 f.hash = RefHash(v, q) /\ RefEq(v, KeyOf(f), q)}
                   /\ \A e \in map[i] :
                        (KeyOf(e) \in LivePtrs /\ e.hash = RefHash(v, KeyOf(e))
                           /\ mem[q[1]] = mem[e.ref])
                            => e \in found
C19_Witness ==
    /\ last.op = "get_or_intern" /\ last.tag = "hit"
    /\ \E e \in map[last.inst] : \E a \in Static :
         /\ e.ref \in Heap /\ e.sym = last.sym
         /\ mem[e.ref] = mem[a] /\ mem[a] = last.text
====
